---- MODULE Spec2Model ----
(***************************************************************************)
(* A model of datamapplot/create_plots.py: the two orchestration functions *)
(* create_plot (static) and create_interactive_plot (HTML).                *)
(*                                                                         *)
(* Representation.                                                         *)
(*  - A string is the sequence of its code points (32 is the space, 10 the *)
(*    newline), so that np.unique's ordering and textwrap.fill are         *)
(*    computed the way Python computes them.                               *)
(*  - A colour given as a hex string "#rrggbb" is the triple <<r, g, b>>   *)
(*    of its bytes.                                                        *)
(*  - A float is a fixed-point integer in units of 1/Fx.                   *)
(*  - The data set is a sequence of points; every listed point stands for  *)
(*    run_length consecutive identical samples, so that n_points =         *)
(*    Len(labels) * run_length reaches the sizes the heuristics switch on. *)
(*  - Python's None is the empty tuple, a present value x is <<x>>.        *)
(***************************************************************************)
EXTENDS Integers, Sequences, FiniteSets, TLC

VARIABLES
    pc,             \* "idle", or the function that was called and has returned
    call,           \* the arguments of the call
    rendered,       \* the calls made to render_plot / render_html, in order
    result,         \* what the call returned, or the exception it raised
    palette_calls,  \* the palette generators called, in order
    built,          \* the label dataframes built (interactive), in order
    caller_map      \* the caller's label_color_map object after the call

vars == <<pc, call, rendered, result, palette_calls, built, caller_map>>

\* ------------------------------------------------------------------ bounds

MaxPoints == 3
MaxSamples == 2
MaxLayers == 2
MaxExp == 6

\* ------------------------------------------------------------ basic values

None == <<>>
Some(x) == <<x>>

Fx == 5 * (2 ^ 15)

Unlabelled == <<85, 110, 108, 97, 98, 101, 108, 108, 101, 100>>
LabelB == <<98>>
LabelAC == <<97, 32, 99>>
Labels == {Unlabelled, LabelB, LabelAC}

DefaultNoiseColor == <<153, 153, 153>>
Red == <<255, 0, 0>>
Blue == <<0, 0, 255>>
Green == <<0, 128, 0>>

Min(a, b) == IF a < b THEN a ELSE b
Max(a, b) == IF a > b THEN a ELSE b

RECURSIVE Pow(_, _)
Pow(b, e) == IF e = 0 THEN 1 ELSE b * Pow(b, e - 1)

\* The exact square root of a perfect square (np.sqrt on the figure areas used).
Sqrt(n) == CHOOSE r \in 0..n : r * r = n

\* ---------------------------------------------------------------- strings

\* Python / numpy string order: by code point, a proper prefix first.
RECURSIVE StrLess(_, _)
StrLess(a, b) ==
    IF b = <<>> THEN FALSE
    ELSE IF a = <<>> THEN TRUE
    ELSE IF Head(a) # Head(b) THEN Head(a) < Head(b)
    ELSE StrLess(Tail(a), Tail(b))

\* np.unique: the distinct values, sorted.
RECURSIVE SortSet(_)
SortSet(S) ==
    IF S = {} THEN <<>>
    ELSE LET m == CHOOSE x \in S : \A y \in S \ {x} : StrLess(x, y)
         IN  <<m>> \o SortSet(S \ {m})

Range(s) == {s[i] : i \in DOMAIN s}

np_unique(v) == SortSet(Range(v))

IsSpaceChunk(c) == \A i \in DOMAIN c : c[i] = 32

\* TextWrapper._split on text without hyphens: maximal runs of whitespace and of
\* non-whitespace.
RECURSIVE SplitChunks(_, _)
SplitChunks(text, acc) ==
    IF text = <<>> THEN acc
    ELSE IF acc # <<>> /\ ((acc[Len(acc)][1] = 32) <=> (Head(text) = 32))
         THEN SplitChunks(Tail(text),
                          [acc EXCEPT ![Len(acc)] = Append(@, Head(text))])
         ELSE SplitChunks(Tail(text), Append(acc, <<Head(text)>>))

RECURSIVE Concat(_)
Concat(ss) == IF ss = <<>> THEN <<>> ELSE Head(ss) \o Concat(Tail(ss))

\* How many leading chunks fit on a line of the given width.
RECURSIVE FitCount(_, _, _)
FitCount(chunks, width, cur_len) ==
    IF chunks = <<>> \/ cur_len + Len(Head(chunks)) > width THEN 0
    ELSE 1 + FitCount(Tail(chunks), width, cur_len + Len(Head(chunks)))

\* TextWrapper._wrap_chunks with break_long_words=False, drop_whitespace=True.
RECURSIVE WrapChunks(_, _, _)
WrapChunks(chunks, width, lines) ==
    IF chunks = <<>> THEN lines
    ELSE LET c0 == IF IsSpaceChunk(Head(chunks)) /\ lines # <<>>
                   THEN Tail(chunks) ELSE chunks
             k == FitCount(c0, width, 0)
             fit == SubSeq(c0, 1, k)
             rest0 == SubSeq(c0, k + 1, Len(c0))
             long == rest0 # <<>> /\ Len(Head(rest0)) > width /\ fit = <<>>
             cur0 == IF long THEN <<Head(rest0)>> ELSE fit
             rest == IF long THEN Tail(rest0) ELSE rest0
             cur == IF cur0 # <<>> /\ IsSpaceChunk(cur0[Len(cur0)])
                    THEN SubSeq(cur0, 1, Len(cur0) - 1) ELSE cur0
         IN  WrapChunks(rest, width,
                        IF cur # <<>> THEN Append(lines, Concat(cur)) ELSE lines)

RECURSIVE JoinLines(_)
JoinLines(lines) ==
    IF lines = <<>> THEN <<>>
    ELSE IF Len(lines) = 1 THEN Head(lines)
    ELSE Head(lines) \o <<10>> \o JoinLines(Tail(lines))

\* textwrap.fill(x, width=width, break_long_words=False)
textwrap_fill(x, width) == JoinLines(WrapChunks(SplitChunks(x, <<>>), width, <<>>))

\* ------------------------------------------------------- numeric helpers

RECURSIVE GCD(_, _)
GCD(a, b) == IF b = 0 THEN a ELSE GCD(b, a % b)

\* The rational num/den in lowest terms (den > 0, num >= 0).
Frac(num, den) == LET g == GCD(num, den) IN <<num \div g, den \div g>>

\* np.clip
np_clip(x, lo, hi) == Min(Max(x, lo), hi)

\* The largest k with 10^k <= n, for n >= 1.
RECURSIVE Log10Floor(_)
Log10Floor(n) == IF n < 10 THEN 0 ELSE 1 + Log10Floor(n \div 10)

\* Stands for the float +inf: above every finite value of the model.
PosInf == 2 ^ 26

\* 128 * 4 ** (-np.log10(n_points)), in units of 1/Fx.  At a power of ten the
\* value is exact; np.log10(0) is -inf and the power is +inf; in between, log10
\* is irrational and the value is only known to lie strictly between the values
\* at the two neighbouring powers of ten (the expression is decreasing in
\* n_points): both ends of that open interval are kept as possible values.
MagicRawValues(n_points) ==
    IF n_points = 0 THEN {PosInf}
    ELSE LET k == Log10Floor(n_points)
             at(j) == (128 * Fx) \div Pow(4, j)
         IN  IF n_points = Pow(10, k) THEN {at(k)}
             ELSE {at(k + 1) + 2, at(k) - 2}

\* ------------------------------------------------------------- create_plot

MatplotlibPointLimit == 100000
DatashaderDivisor == 2048

Members(cluster_label_vector, label) ==
    {i \in DOMAIN cluster_label_vector : cluster_label_vector[i] = label}

IsNonNoise(label, noise_label) == label # noise_label

unique_non_noise_labels(cluster_label_vector, noise_label) ==
    SelectSeq(np_unique(cluster_label_vector),
              LAMBDA label : IsNonNoise(label, noise_label))

RECURSIVE SumOver(_, _)
SumOver(S, f) ==
    IF S = {} THEN 0
    ELSE LET i == CHOOSE j \in S : TRUE IN f[i] + SumOver(S \ {i}, f)

\* data_map_coords[mask].mean(axis=0): a pair of rationals.
MeanOf(data_map_coords, mask) ==
    LET n == Cardinality(mask)
    IN  <<Frac(SumOver(mask, [i \in mask |-> data_map_coords[i][1]]), n),
          Frac(SumOver(mask, [i \in mask |-> data_map_coords[i][2]]), n)>>

\* datamapplot.medoids.medoid: the member of the cluster with the least total
\* (squared) distance to the other members, the first such member on a tie.
medoid(data_map_coords, mask) ==
    LET d(i, j) == (data_map_coords[i][1] - data_map_coords[j][1])
                     * (data_map_coords[i][1] - data_map_coords[j][1])
                   + (data_map_coords[i][2] - data_map_coords[j][2])
                     * (data_map_coords[i][2] - data_map_coords[j][2])
        cost(i) == SumOver(mask, [j \in mask |-> d(i, j)])
        best == CHOOSE i \in mask :
                    \A j \in mask : cost(i) < cost(j) \/ (cost(i) = cost(j) /\ i <= j)
    IN  <<Frac(data_map_coords[best][1], 1), Frac(data_map_coords[best][2], 1)>>

LabelLocationOf(data_map_coords, cluster_label_vector, label, use_medoids) ==
    IF use_medoids
    THEN medoid(data_map_coords, Members(cluster_label_vector, label))
    ELSE MeanOf(data_map_coords, Members(cluster_label_vector, label))


\* A variant that places an anchor for every value of np.unique, noise included.
label_locations_with_noise(data_map_coords, cluster_label_vector, unique, use_medoids) ==
    LET u == np_unique(cluster_label_vector)
    IN  [i \in 1..Len(u) |->
            LabelLocationOf(data_map_coords, cluster_label_vector, u[i], use_medoids)]

label_locations(data_map_coords, cluster_label_vector, unique, use_medoids) ==
    [i \in 1..Len(unique) |->
        LabelLocationOf(data_map_coords, cluster_label_vector, unique[i], use_medoids)]

label_text(unique, label_wrap_width) ==
    [i \in 1..Len(unique) |-> textwrap_fill(unique[i], label_wrap_width)]

\* datamapplot.palette_handling: one colour per label location, a pure function
\* of the positions (the hue follows the location) and of the hue shift.
DatamapHues == <<Red, Blue, <<255, 128, 0>>>>
CmapHues == <<<<68, 1, 84>>, <<33, 145, 140>>, <<253, 231, 37>>>>

HueIndex(location, shift, n) ==
    ((location[1][1] + location[1][2] + 2 * location[2][1] + shift) % n) + 1

palette_from_datamap(data_map_coords, locations, hue_shift) ==
    [i \in 1..Len(locations) |->
        DatamapHues[HueIndex(locations[i], hue_shift, Len(DatamapHues))]]

palette_from_cmap_and_datamap(cmap, data_map_coords, locations) ==
    [i \in 1..Len(locations) |-> cmap[HueIndex(locations[i], 0, Len(cmap))]]

Darken(c) == <<c[1] \div 2, c[2] \div 2, c[3] \div 2>>
Lighten(c) == <<(c[1] + 255) \div 2, (c[2] + 255) \div 2, (c[3] + 255) \div 2>>

deep_palette(base) == [i \in 1..Len(base) |-> Darken(base[i])]
pastel_palette(base) == [i \in 1..Len(base) |-> Lighten(base[i])]


\* A variant that generates a palette whether or not a map was supplied.
PaletteCallsAlways(label_color_map, cmap) ==
    IF cmap = None THEN <<"palette_from_datamap">>
    ELSE <<"palette_from_cmap_and_datamap">>

\* Lines 187-201: which generator runs, and its palette.
PaletteCalls(label_color_map, cmap) ==
    IF label_color_map # None THEN <<>>
    ELSE IF cmap = None THEN <<"palette_from_datamap">>
    ELSE <<"palette_from_cmap_and_datamap">>

GeneratedPalette(a, locations) ==
    IF a.cmap = None
    THEN palette_from_datamap(a.data_map_coords, locations, a.palette_hue_shift)
    ELSE palette_from_cmap_and_datamap(a.cmap[1], a.data_map_coords, locations)

label_to_index_map(unique) ==
    [name \in Range(unique) |-> (CHOOSE i \in 1..Len(unique) : unique[i] = name) - 1]

GeneratedColorOf(x, palette, l2i, noise_color) ==
    IF x \in DOMAIN l2i THEN palette[l2i[x] + 1] ELSE noise_color


\* A variant keyed by the non-noise labels only.
GeneratedColorMapClustersOnly(cluster_label_vector, palette, l2i, noise_color) ==
    [x \in DOMAIN l2i |-> palette[l2i[x] + 1]]

GeneratedColorMap(cluster_label_vector, palette, l2i, noise_color) ==
    [x \in Range(np_unique(cluster_label_vector)) |->
        GeneratedColorOf(x, palette, l2i, noise_color)]


\* A variant that looks the noise label up in the supplied map first.
SuppliedColorOfLookupFirst(x, supplied, noise_label, noise_color) ==
    IF x \in DOMAIN supplied THEN supplied[x] ELSE noise_color

SuppliedColorOf(x, supplied, noise_label, noise_color) ==
    IF x # noise_label THEN supplied[x] ELSE noise_color

\* Lines 205-208 and 218-224.
color_list(a, palette, l2i) ==
    IF a.marker_color_array # None THEN a.marker_color_array[1]
    ELSE IF a.label_color_map = None
    THEN [i \in DOMAIN a.labels |->
            GeneratedColorOf(a.labels[i], palette, l2i, a.noise_color)]
    ELSE [i \in DOMAIN a.labels |->
            SuppliedColorOf(a.labels[i], a.label_color_map[1],
                            a.noise_label, a.noise_color)]

\* The mapping the name label_color_map is bound to after lines 187-221.
label_color_map(a, palette, l2i) ==
    IF a.label_color_map = None
    THEN GeneratedColorMap(a.labels, palette, l2i, a.noise_color)
    ELSE a.label_color_map[1]

\* The caller's mapping object: create_plot only rebinds its own name (line 209)
\* and never stores into the mapping it was given.
CallerMapAfter(supplied) == supplied

label_colors(color_map, unique) == [i \in 1..Len(unique) |-> color_map[unique[i]]]


\* A variant with the two text palettes exchanged.
label_text_colors_swapped(colors, color_label_text, darkmode) ==
    IF color_label_text
    THEN IF darkmode THEN Some(deep_palette(colors)) ELSE Some(pastel_palette(colors))
    ELSE None

label_text_colors(colors, color_label_text, darkmode) ==
    IF color_label_text
    THEN IF darkmode THEN Some(pastel_palette(colors)) ELSE Some(deep_palette(colors))
    ELSE None

label_arrow_colors(colors, color_label_arrows) ==
    IF color_label_arrows THEN Some(colors) ELSE None

\* pd.Series(cluster_label_vector).value_counts(): label -> number of samples.
value_counts(cluster_label_vector, run_length) ==
    [x \in Range(cluster_label_vector) |->
        Cardinality(Members(cluster_label_vector, x)) * run_length]

\* Lines 242-255.  A dynamic adjustment is kept as the terms of its closed form
\* (sqrt(count) - sqrt(lo)) / (sqrt(hi) - sqrt(lo)) * scale - 2.
label_size_adjustments(a, unique) ==
    IF a.dynamic_label_size
    THEN LET counts == value_counts(a.labels, a.run_length)
             lo == CHOOSE c \in Range(counts) : \A d \in Range(counts) : c <= d
             hi == CHOOSE c \in Range(counts) : \A d \in Range(counts) : c >= d
             font == IF "label_font_size" \in DOMAIN a.render_plot_kwds
                     THEN a.render_plot_kwds["label_font_size"]
                     ELSE Sqrt(a.figsize[1] * a.figsize[2]) * Fx
         IN  [i \in 1..Len(unique) |->
                <<"dynamic", counts[unique[i]], lo, hi, font + 2 * Fx>>]
    ELSE [i \in 1..Len(unique) |-> <<"static", 0>>]

n_points(a) == Len(a.data_map_coords) * a.run_length

UsesMatplotlibHeuristic(a) == n_points(a) < MatplotlibPointLimit \/ a.force_matplotlib


\* A variant without the clamp of line 260.
magic_numbers_unclamped(a) == MagicRawValues(n_points(a))

magic_numbers(a) ==
    {np_clip(raw, Fx \div 20, 64 * Fx) : raw \in MagicRawValues(n_points(a))}

HeuristicPointSize(a, magic_number) ==
    IF UsesMatplotlibHeuristic(a)
    THEN (magic_number * Sqrt(a.figsize[1] * a.figsize[2])) \div 2
    ELSE ((Sqrt(a.figsize[1] * a.figsize[2]) * a.dpi) \div DatashaderDivisor) * Fx

HeuristicAlpha(a, magic_number) ==
    IF UsesMatplotlibHeuristic(a)
    THEN np_clip(magic_number, Fx \div 20, Fx)
    ELSE Fx

\* Lines 268-272: dict.pop of the two keys.
point_size(a, magic_number) ==
    IF "point_size" \in DOMAIN a.render_plot_kwds
    THEN a.render_plot_kwds["point_size"]
    ELSE HeuristicPointSize(a, magic_number)

alpha(a, magic_number) ==
    IF "alpha" \in DOMAIN a.render_plot_kwds
    THEN a.render_plot_kwds["alpha"]
    ELSE HeuristicAlpha(a, magic_number)

PoppedKeys == {"point_size", "alpha"}


\* A variant that reads the two keys without removing them.
ForwardedKwdsUnpopped(kwds) == kwds

ForwardedKwds(kwds) == [k \in (DOMAIN kwds) \ PoppedKeys |-> kwds[k]]

highlight_labels(a) ==
    IF a.highlight_labels = None THEN None
    ELSE Some([i \in DOMAIN a.highlight_labels[1] |->
                  textwrap_fill(a.highlight_labels[1][i], a.label_wrap_width)])

\* Lines 274-294: the arguments render_plot is called with.
RenderPlotCall(a, magic_number) ==
    LET unique == unique_non_noise_labels(a.labels, a.noise_label)
        locations == label_locations(a.data_map_coords, a.labels, unique, a.use_medoids)
        palette == IF a.label_color_map = None
                   THEN GeneratedPalette(a, locations) ELSE <<>>
        l2i == label_to_index_map(unique)
        color_map == label_color_map(a, palette, l2i)
        colors == label_colors(color_map, unique)
    IN  [data_map_coords |-> a.data_map_coords,
         color_list |-> color_list(a, palette, l2i),
         label_text |-> label_text(unique, a.label_wrap_width),
         label_locations |-> locations,
         point_size |-> point_size(a, magic_number),
         alpha |-> alpha(a, magic_number),
         label_text_colors |->
            IF ~a.color_label_text THEN None
            ELSE label_text_colors(colors, a.color_label_text, a.darkmode),
         label_arrow_colors |->
            IF ~a.color_label_arrows THEN None
            ELSE label_arrow_colors(colors, a.color_label_arrows),
         highlight_colors |-> label_colors(color_map, unique),
         figsize |-> a.figsize,
         noise_color |-> a.noise_color,
         label_size_adjustments |-> label_size_adjustments(a, unique),
         dpi |-> a.dpi,
         force_matplotlib |-> a.force_matplotlib,
         darkmode |-> a.darkmode,
         highlight_labels |-> highlight_labels(a),
         kwds |-> ForwardedKwds(a.render_plot_kwds),
         \* locals of create_plot that are not arguments of render_plot
         local_palette |-> palette,
         local_label_color_map |-> color_map,
         local_label_colors |-> colors,
         local_magic_number |-> magic_number]

\* The scale factor is only computed on the matplotlib branch (line 260).
MagicChoices(a) == IF UsesMatplotlibHeuristic(a) THEN magic_numbers(a) ELSE {0}

\* ------------------------------------------------- inputs of create_plot

\* Two layouts of the data map: point i of a data set of n points.
Coords(layout, n) ==
    [i \in 1..n |-> IF layout = 1 THEN <<i, 2 * i>> ELSE <<n - i, i * i>>]

LabelSeqs(n) == [1..n -> Labels]

\* Caller-supplied colour maps, keyed by the cluster labels (docstring, lines
\* 96-99): one with an entry of its own for every label, the noise labels
\* included, and one with no entry for "Unlabelled".
FullColorMap ==
    [x \in Labels |-> IF x = LabelB THEN Red ELSE IF x = LabelAC THEN Blue ELSE Green]
ClusterColorMap ==
    [x \in {LabelB, LabelAC} |-> IF x = LabelB THEN Green ELSE DefaultNoiseColor]

\* The documented precondition on a supplied map: it has every non-noise label.
MapCovers(map_opt, label_vectors, noise_label) ==
    IF map_opt = None THEN TRUE
    ELSE \A v \in label_vectors :
            \A i \in DOMAIN v : v[i] # noise_label => v[i] \in DOMAIN map_opt[1]

MarkerColors(n) == [i \in 1..n |-> IF i % 2 = 1 THEN Green ELSE <<17, 34, 51>>]

KwdValue(k) ==
    IF k = "point_size" THEN 5 * Fx
    ELSE IF k = "alpha" THEN Fx \div 2
    ELSE IF k = "label_font_size" THEN 10 * Fx
    ELSE 36 * Fx

KwdDicts(keys) == {[k \in K |-> KwdValue(k)] : K \in SUBSET keys}

\* The defaults of the signature (lines 23-47) on a given data set.
DefaultPlotCall(labels, layout) ==
    [data_map_coords |-> Coords(layout, Len(labels)),
     labels |-> labels,
     run_length |-> 1,
     noise_label |-> Unlabelled,
     noise_color |-> DefaultNoiseColor,
     color_label_text |-> TRUE,
     color_label_arrows |-> FALSE,
     label_wrap_width |-> 16,
     label_color_map |-> None,
     figsize |-> <<12, 12>>,
     dynamic_label_size |-> FALSE,
     dpi |-> 100,
     force_matplotlib |-> FALSE,
     darkmode |-> FALSE,
     highlight_labels |-> None,
     palette_hue_shift |-> 0,
     use_medoids |-> FALSE,
     cmap |-> None,
     marker_color_array |-> None,
     render_plot_kwds |-> [k \in {} |-> 0]]

\* A call that varies the labels and the colour inputs.
PlotDataCall(ls, nl, nc, m, mc, cm) ==
    [DefaultPlotCall(ls, 1) EXCEPT
        !.noise_label = nl, !.noise_color = nc, !.label_color_map = m,
        !.marker_color_array = IF mc THEN Some(MarkerColors(Len(ls))) ELSE None,
        !.cmap = cm]

\* A call that varies the layout and what is shown for each label.
PlotLabelCall(ls, lay, um, dls, w, hl, kw) ==
    [DefaultPlotCall(ls, lay) EXCEPT
        !.use_medoids = um, !.dynamic_label_size = dls, !.label_wrap_width = w,
        !.highlight_labels = hl, !.render_plot_kwds = kw]

\* A call that varies the styling options.
PlotStyleCall(ls, clt, cla, dm, m, hs) ==
    [DefaultPlotCall(ls, 1) EXCEPT
        !.color_label_text = clt, !.color_label_arrows = cla, !.darkmode = dm,
        !.label_color_map = m, !.palette_hue_shift = hs]

\* A call that varies the size of the data set, the figure and the extra
\* keywords: n points of one cluster, each standing for 10^e samples.
PlotSizeCall(n, e, fs, d, fm, kw) ==
    [DefaultPlotCall([i \in 1..n |-> LabelB], 1) EXCEPT
        !.run_length = Pow(10, e), !.figsize = fs, !.dpi = d,
        !.force_matplotlib = fm, !.render_plot_kwds = kw]

SuppliedMaps == {None, Some(FullColorMap), Some(ClusterColorMap)}

\* ------------------------------------------------- create_interactive_plot

DarkTextLevel == 15
LightTextLevel == 240
LabelAlpha == 64
PointAlpha == 180

\* tuple(int(c * 255) for c in to_rgb(color)): to_rgb turns each byte b of the
\* hex string into the float b / 255, and int() truncates the product.
to_rgb255(color) ==
    <<(color[1] * 255) \div 255, (color[2] * 255) \div 255, (color[3] * 255) \div 255>>

\* dtype=np.uint8
uint8(t) == <<t[1] % 256, t[2] % 256, t[3] % 256>>

\* datamapplot.interactive_rendering.label_text_and_polygon_dataframes: one row
\* per cluster (non-noise label) of the layer, with its anchor and, when asked
\* for, the boundary polygon of its members.
label_text_and_polygon_dataframes(labels, data_map_coords, noise_label, use_medoids, cluster_polygons, polygon_alpha) ==
    LET unique == unique_non_noise_labels(labels, noise_label)
    IN  [i \in 1..Len(unique) |->
            LET loc == LabelLocationOf(data_map_coords, labels, unique[i], use_medoids)
            IN  [label |-> unique[i], x |-> loc[1], y |-> loc[2],
                 polygon |-> IF cluster_polygons
                             THEN Some(<<Members(labels, unique[i]), polygon_alpha>>)
                             ELSE None]]

\* pd.concat over the layers, in argument order (lines 426-438).
label_dataframe(a) ==
    Concat([k \in 1..Len(a.label_layers) |->
               label_text_and_polygon_dataframes(
                   a.label_layers[k], a.data_map_coords, a.noise_label,
                   a.use_medoids, a.cluster_boundary_polygons, a.polygon_alpha)])

FrameLocations(frame) == [i \in 1..Len(frame) |-> <<frame[i].x, frame[i].y>>]
FrameLabels(frame) == [i \in 1..Len(frame) |-> frame[i].label]

\* {label: color for label, color in zip(labels, palette)}: a later pair with
\* the same label replaces an earlier one.
ZipDict(labels, colors) ==
    [x \in Range(labels) |->
        colors[CHOOSE i \in DOMAIN labels :
                  labels[i] = x /\ \A j \in DOMAIN labels : labels[j] = x => j <= i]]

\* Lines 440-477: the colour map of the points, as byte triples.
color_map(a, frame) ==
    IF a.label_color_map = None
    THEN LET palette == GeneratedPalette(a, FrameLocations(frame))
         IN  ZipDict(FrameLabels(frame),
                     [i \in DOMAIN palette |-> to_rgb255(palette[i])])
    ELSE [label \in DOMAIN a.label_color_map[1] |->
             to_rgb255(a.label_color_map[1][label])]

\* Lines 455-468 and 478-495: the text colours, one per row of the frame.
text_palette(a, frame) ==
    LET base == IF a.label_color_map = None
                THEN GeneratedPalette(a, FrameLocations(frame))
                ELSE [i \in 1..Len(frame) |-> a.label_color_map[1][frame[i].label]]
        text == IF ~a.darkmode THEN deep_palette(base) ELSE pastel_palette(base)
    IN  [i \in DOMAIN text |-> to_rgb255(text[i])]

UsesTextPalette(a) == a.color_label_text \/ a.color_cluster_boundaries

\* text_palette.T[0] on np.asarray([]), a one-dimensional array of length 0
\* (line 498): index 0 is out of bounds.
RaisesIndexError(a, frame) == UsesTextPalette(a) /\ Len(frame) = 0


\* A variant that always takes the text palette.
LabelRowColorAlwaysPalette(a, text_color) ==
    [r |-> text_color[1], g |-> text_color[2], b |-> text_color[3], a |-> LabelAlpha]

\* Lines 497-506: the colour columns of one row of the label dataframe.
LabelRowColor(a, text_color) ==
    IF UsesTextPalette(a)
    THEN [r |-> text_color[1], g |-> text_color[2], b |-> text_color[3], a |-> LabelAlpha]
    ELSE LET level == IF ~a.darkmode THEN DarkTextLevel ELSE LightTextLevel
         IN  [r |-> level, g |-> level, b |-> level, a |-> LabelAlpha]

\* Lines 497-510: the label dataframe handed to render_html.
ColoredLabelFrame(a, frame) ==
    LET tp == text_palette(a, frame)
    IN  [i \in 1..Len(frame) |->
            LET c == LabelRowColor(a, tp[i])
            IN  [label |-> textwrap_fill(frame[i].label, a.label_wrap_width),
                 x |-> frame[i].x, y |-> frame[i].y, polygon |-> frame[i].polygon,
                 r |-> c.r, g |-> c.g, b |-> c.b, a |-> c.a]]

\* Lines 531-533: label -> index in np.unique(labels), the noise label added
\* with index -1 when the layer has no noise.
label_map(labels, noise_label) ==
    LET u == np_unique(labels)
    IN  [n \in Range(u) \cup {noise_label} |->
            IF n \in Range(u) THEN (CHOOSE i \in DOMAIN u : u[i] = n) - 1 ELSE -1]

label_unmap(lm) == [i \in Range(lm) |-> CHOOSE n \in DOMAIN lm : lm[n] = i]

RECURSIVE SetToSeq(_)
SetToSeq(S) ==
    IF S = {} THEN <<>>
    ELSE LET m == CHOOSE x \in S : \A y \in S : x <= y
         IN  <<m>> \o SetToSeq(S \ {m})

\* Lines 536-538: the indices of the layer's labels other than the noise label.
NonNoiseIndices(lm, noise_label) ==
    SelectSeq(SetToSeq(DOMAIN label_unmap(lm)), LAMBDA i : i # lm[noise_label])

\* Lines 539-542: one layer painted over the colour vector.
RECURSIVE PaintLabels(_, _, _, _, _)
PaintLabels(color_vector, cluster_label_vector, indices, unmap, cmap) ==
    IF indices = <<>> THEN color_vector
    ELSE PaintLabels(
            [i \in DOMAIN color_vector |->
                IF cluster_label_vector[i] = Head(indices)
                THEN uint8(cmap[unmap[Head(indices)]]) ELSE color_vector[i]],
            cluster_label_vector, Tail(indices), unmap, cmap)

PaintLayer(color_vector, labels, noise_label, cmap) ==
    LET lm == label_map(labels, noise_label)
        cluster_label_vector == [i \in DOMAIN labels |-> lm[labels[i]]]
    IN  PaintLabels(color_vector, cluster_label_vector,
                    NonNoiseIndices(lm, noise_label), label_unmap(lm), cmap)


\* A variant that walks the layers in argument order.
LayerOrderForward(label_layers) == label_layers

\* The order in which line 530 walks the layers: reversed(label_layers).
LayerOrder(label_layers) ==
    [k \in 1..Len(label_layers) |-> label_layers[Len(label_layers) + 1 - k]]

RECURSIVE PaintLayers(_, _, _, _)
PaintLayers(color_vector, layers, noise_label, cmap) ==
    IF layers = <<>> THEN color_vector
    ELSE PaintLayers(PaintLayer(color_vector, Head(layers), noise_label, cmap),
                     Tail(layers), noise_label, cmap)

\* Lines 524-550.
color_vector(a, cmap) ==
    IF a.marker_color_array = None
    THEN PaintLayers([i \in DOMAIN a.data_map_coords |-> uint8(to_rgb255(a.noise_color))],
                     LayerOrder(a.label_layers), a.noise_label, cmap)
    ELSE [i \in DOMAIN a.marker_color_array[1] |->
            uint8(to_rgb255(a.marker_color_array[1][i]))]

\* Lines 512-555.
point_dataframe(a, colors) ==
    [i \in DOMAIN a.data_map_coords |->
        [x |-> a.data_map_coords[i][1], y |-> a.data_map_coords[i][2],
         hover_text |-> IF a.hover_text = None THEN None ELSE Some(a.hover_text[1][i]),
         size |-> IF a.marker_size_array = None THEN None
                  ELSE Some(a.marker_size_array[1][i]),
         r |-> colors[i][1], g |-> colors[i][2], b |-> colors[i][3],
         a |-> PointAlpha]]

\* Lines 557-564: the arguments render_html is called with.
RenderHtmlCall(a) ==
    LET frame == label_dataframe(a)
        cmap == color_map(a, frame)
    IN  [point_dataframe |-> point_dataframe(a, color_vector(a, cmap)),
         label_dataframe |-> ColoredLabelFrame(a, frame),
         inline_data |-> a.inline_data,
         color_label_text |-> a.color_label_text,
         darkmode |-> a.darkmode,
         kwds |-> a.render_html_kwds,
         \* a local of create_interactive_plot that is not an argument
         local_color_map |-> cmap]

\* Lines 423-424: the early return.
ReturnsEarly(a) == Len(a.label_layers) = 0

\* Line 566.
InteractiveFigure(html_str, width, height) ==
    <<"InteractiveFigure", html_str, width, height>>

\* ------------------------------------- inputs of create_interactive_plot

\* The defaults of the signature (lines 299-322) on given label layers.
DefaultInteractiveCall(n, layers) ==
    [data_map_coords |-> Coords(1, n),
     label_layers |-> layers,
     hover_text |-> None,
     inline_data |-> TRUE,
     noise_label |-> Unlabelled,
     noise_color |-> DefaultNoiseColor,
     color_label_text |-> TRUE,
     label_wrap_width |-> 16,
     label_color_map |-> None,
     width |-> "100%",
     height |-> 800,
     darkmode |-> FALSE,
     palette_hue_shift |-> 0,
     cmap |-> None,
     marker_size_array |-> None,
     marker_color_array |-> None,
     use_medoids |-> FALSE,
     cluster_boundary_polygons |-> FALSE,
     color_cluster_boundaries |-> TRUE,
     polygon_alpha |-> Fx \div 10,
     render_html_kwds |-> [k \in {} |-> 0]]

\* A call that varies the layers and the colour inputs.
InteractiveDataCall(n, layers, m, mc) ==
    [DefaultInteractiveCall(n, layers) EXCEPT
        !.label_color_map = m,
        !.marker_color_array = IF mc THEN Some(MarkerColors(n)) ELSE None]

\* A call that varies the styling options; extra switches the remaining
\* optional arguments on together.
InteractiveStyleCall(n, layers, clt, ccb, dm, cbp, m, um, w, extra) ==
    [DefaultInteractiveCall(n, layers) EXCEPT
        !.color_label_text = clt, !.color_cluster_boundaries = ccb,
        !.darkmode = dm, !.cluster_boundary_polygons = cbp,
        !.label_color_map = m, !.use_medoids = um, !.label_wrap_width = w,
        !.hover_text = IF extra THEN Some([i \in 1..n |-> <<104, 48 + i>>]) ELSE None,
        !.marker_size_array = IF extra THEN Some([i \in 1..n |-> i]) ELSE None,
        !.inline_data = ~extra,
        !.cmap = IF extra THEN Some(CmapHues) ELSE None,
        !.render_html_kwds = IF extra THEN [k \in {"title"} |-> <<84>>]
                             ELSE [k \in {} |-> 0]]

\* ----------------------------------------------------------- the machine

Init ==
    /\ pc = "idle"
    /\ call = None
    /\ rendered = <<>>
    /\ result = None
    /\ palette_calls = <<>>
    /\ built = <<>>
    /\ caller_map = None

\* create_plot called with the arguments a: lines 158-296.
CreatePlotReturns(a) ==
    \E magic_number \in MagicChoices(a) :
        /\ call' = a
        /\ palette_calls' = PaletteCalls(a.label_color_map, a.cmap)
        /\ rendered' = <<RenderPlotCall(a, magic_number)>>
        /\ result' = <<"fig", "ax", 1>>
        /\ caller_map' = IF a.label_color_map = None THEN None
                         ELSE Some(CallerMapAfter(a.label_color_map[1]))
        /\ built' = <<>>
        /\ pc' = "create_plot"

\* create_plot(data_map_coords, labels, **options) on the data sets of up to
\* MaxPoints points, one group of options varied at a time.
CreatePlot ==
    /\ pc = "idle"
    /\ \E n \in 0..MaxPoints :
          \/ \E ls \in LabelSeqs(n), nl \in {Unlabelled, LabelB},
                nc \in {DefaultNoiseColor, Red}, m \in SuppliedMaps,
                mc \in BOOLEAN, cm \in {None, Some(CmapHues)} :
                /\ MapCovers(m, {ls}, nl)
                /\ CreatePlotReturns(PlotDataCall(ls, nl, nc, m, mc, cm))
          \/ \E ls \in LabelSeqs(n), lay \in 1..2, um \in BOOLEAN, dls \in BOOLEAN,
                w \in {1, 16}, hl \in {None, Some(<<LabelAC>>)},
                kw \in KwdDicts({"label_font_size"}) :
                CreatePlotReturns(PlotLabelCall(ls, lay, um, dls, w, hl, kw))
          \/ \E ls \in LabelSeqs(n), clt \in BOOLEAN, cla \in BOOLEAN, dm \in BOOLEAN,
                m \in {None, Some(FullColorMap)}, hs \in {0, 1} :
                CreatePlotReturns(PlotStyleCall(ls, clt, cla, dm, m, hs))
          \/ \E e \in 0..MaxExp, fs \in {<<12, 12>>, <<4, 9>>}, d \in {100, 400},
                fm \in BOOLEAN,
                kw \in KwdDicts({"point_size", "alpha", "title_font_size"}) :
                CreatePlotReturns(PlotSizeCall(n, e, fs, d, fm, kw))

\* create_interactive_plot called with the arguments a: lines 423-566.
CreateInteractivePlotReturns(a) ==
    /\ call' = a
    /\ IF ReturnsEarly(a)
       THEN /\ built' = <<>>
            /\ palette_calls' = <<>>
            /\ rendered' = <<>>
            /\ result' = <<"None">>
       ELSE /\ built' = <<label_dataframe(a)>>
            /\ palette_calls' = PaletteCalls(a.label_color_map, a.cmap)
            /\ IF RaisesIndexError(a, label_dataframe(a))
               THEN /\ rendered' = <<>>
                    /\ result' = <<"IndexError">>
               ELSE /\ rendered' = <<RenderHtmlCall(a)>>
                    /\ result' = InteractiveFigure(<<"html_str", 1>>, a.width, a.height)
    /\ caller_map' = IF a.label_color_map = None THEN None
                     ELSE Some(CallerMapAfter(a.label_color_map[1]))
    /\ pc' = "create_interactive_plot"

\* create_interactive_plot(data_map_coords, *label_layers, **options) on up to
\* MaxLayers layers over up to MaxSamples points.
CreateInteractivePlot ==
    /\ pc = "idle"
    /\ \E n \in 1..MaxSamples :
          \/ \E k \in 0..MaxLayers : \E layers \in [1..k -> LabelSeqs(n)],
                m \in SuppliedMaps, mc \in BOOLEAN :
                /\ mc => m = None
                /\ MapCovers(m, Range(layers), Unlabelled)
                /\ CreateInteractivePlotReturns(InteractiveDataCall(n, layers, m, mc))
          \/ \E k \in 0..1 : \E layers \in [1..k -> LabelSeqs(n)],
                clt \in BOOLEAN, ccb \in BOOLEAN, dm \in BOOLEAN, cbp \in BOOLEAN,
                m \in {None, Some(FullColorMap)}, um \in BOOLEAN, w \in {1, 16},
                extra \in BOOLEAN :
                CreateInteractivePlotReturns(
                    InteractiveStyleCall(n, layers, clt, ccb, dm, cbp, m, um, w, extra))

Next == CreatePlot \/ CreateInteractivePlot

Spec == Init /\ [][Next]_vars

\* ------------------------------------------------------------- properties

Plotted == pc = "create_plot" /\ Len(rendered) = 1
Interacted == pc = "create_interactive_plot"
RenderedHtml == Interacted /\ Len(rendered) = 1

\* The distinct values of the labels of a create_plot call, and its clusters.
ObservedLabels == {call.labels[i] : i \in DOMAIN call.labels}
ClusterLabels == {l \in ObservedLabels : l # call.noise_label}

\* The position of a cluster label among the sorted cluster labels, and back.
RankOf(l) == 1 + Cardinality({m \in ClusterLabels : StrLess(m, l)})
ClusterAt(i) == CHOOSE l \in ClusterLabels : RankOf(l) = i

SamplesOf(l) == Cardinality({i \in DOMAIN call.labels : call.labels[i] = l})

\* C1: with label_color_map=None the generated colour map has every observed
\* label as a key, maps each non-noise label to the palette entry at its index
\* in the sorted unique non-noise labels, and maps the noise label to
\* noise_color.
C1_GeneratedMapTotal ==
    (Plotted /\ call.label_color_map = None) =>
        LET m == rendered[1].local_label_color_map
            palette == rendered[1].local_palette
        IN  /\ ObservedLabels \subseteq DOMAIN m
            /\ \A l \in ClusterLabels : m[l] = palette[RankOf(l)]
            /\ call.noise_label \in ObservedLabels => m[call.noise_label] = call.noise_color

C1_Witness ==
    /\ Plotted
    /\ call.label_color_map = None
    /\ call.labels = <<LabelB, Unlabelled, LabelAC>>
    /\ call.noise_label = Unlabelled
    /\ rendered[1].local_label_color_map[LabelAC] # rendered[1].local_label_color_map[LabelB]

\* C2: render_plot gets exactly one anchor, wrapped text, label colour,
\* highlight colour and size adjustment per unique non-noise label, position i
\* of each list belongs to the i-th such label, and the noise label adds none.
C2_OneEntryPerCluster ==
    Plotted =>
        LET r == rendered[1]
            n == Cardinality(ClusterLabels)
        IN  /\ Len(r.label_locations) = n
            /\ Len(r.label_text) = n
            /\ Len(r.local_label_colors) = n
            /\ Len(r.highlight_colors) = n
            /\ Len(r.label_size_adjustments) = n
            /\ r.label_text_colors # None => Len(r.label_text_colors[1]) = n
            /\ \A i \in 1..n :
                  LET l == ClusterAt(i)
                  IN  /\ r.label_text[i] = textwrap_fill(l, call.label_wrap_width)
                      /\ r.label_locations[i] =
                            LabelLocationOf(call.data_map_coords, call.labels, l,
                                            call.use_medoids)
                      /\ r.local_label_colors[i] = r.local_label_color_map[l]
                      /\ r.highlight_colors[i] = r.local_label_color_map[l]
                      /\ IF call.dynamic_label_size
                         THEN r.label_size_adjustments[i][2] = SamplesOf(l) * call.run_length
                         ELSE r.label_size_adjustments[i] = <<"static", 0>>

C2_Witness ==
    /\ Plotted
    /\ call.noise_label \in ObservedLabels
    /\ Cardinality(ClusterLabels) = 2
    /\ call.dynamic_label_size
    /\ call.label_wrap_width = 1
    /\ rendered[1].label_text[1] # ClusterAt(1)
    /\ Len(rendered[1].label_locations) = 2

\* C3: on the matplotlib branch (n_points < 100000 or force_matplotlib) the
\* scale factor lies in [0.05, 64], the heuristic alpha in [0.05, 1] and the
\* heuristic point size is the scale factor times sqrt(figsize[0]*figsize[1])/2;
\* otherwise the heuristic alpha is exactly 1.0.
C3_HeuristicsClamped ==
    Plotted =>
        LET r == rendered[1]
            n == Len(call.data_map_coords) * call.run_length
            area == call.figsize[1] * call.figsize[2]
            root == CHOOSE q \in 0..area : q * q = area
        IN  IF n < 100000 \/ call.force_matplotlib
            THEN /\ r.local_magic_number >= Fx \div 20
                 /\ r.local_magic_number <= 64 * Fx
                 /\ "alpha" \notin DOMAIN call.render_plot_kwds =>
                        r.alpha >= Fx \div 20 /\ r.alpha <= Fx
                 /\ "point_size" \notin DOMAIN call.render_plot_kwds =>
                        2 * r.point_size = r.local_magic_number * root
            ELSE "alpha" \notin DOMAIN call.render_plot_kwds => r.alpha = Fx

C3_Witness ==
    /\ Plotted
    /\ call.force_matplotlib
    /\ Len(call.data_map_coords) * call.run_length >= 1000000
    /\ call.render_plot_kwds = [k \in {} |-> 0]
    /\ rendered[1].alpha = Fx \div 20
    /\ rendered[1].point_size = (Fx \div 20) * 3

\* C4: with marker_color_array=None every point labelled noise_label gets
\* noise_color, with a generated or a supplied map (even one with an entry for
\* noise_label), and every other point gets the colour its label maps to.
C4_NoisePointsGetNoiseColor ==
    (Plotted /\ call.marker_color_array = None) =>
        \A i \in DOMAIN call.labels :
            rendered[1].color_list[i] =
                IF call.labels[i] = call.noise_label THEN call.noise_color
                ELSE rendered[1].local_label_color_map[call.labels[i]]

C4_Witness ==
    /\ Plotted
    /\ call.marker_color_array = None
    /\ call.label_color_map = Some(FullColorMap)
    /\ call.noise_label \in ObservedLabels
    /\ ClusterLabels # {}
    /\ FullColorMap[call.noise_label] # call.noise_color

SuppliedMapUsedForLabels ==
    LET r == rendered[1]
        supplied == call.label_color_map[1]
    IN  /\ \A i \in 1..Cardinality(ClusterLabels) :
              /\ r.local_label_colors[i] = supplied[ClusterAt(i)]
              /\ r.highlight_colors[i] = supplied[ClusterAt(i)]
              /\ r.label_arrow_colors # None =>
                    r.label_arrow_colors[1][i] = supplied[ClusterAt(i)]
        /\ palette_calls = <<>>
        /\ caller_map = call.label_color_map

SuppliedMapUsedForPoints ==
    \A i \in DOMAIN call.labels :
        call.labels[i] # call.noise_label =>
            rendered[1].color_list[i] = call.label_color_map[1][call.labels[i]]

\* C6 as stated: with a supplied label_color_map every non-noise point's colour
\* and every label, highlight and arrow colour is label_color_map[label], no
\* palette is generated and the supplied mapping is not modified.
C6_SuppliedMapAlwaysUsed ==
    (Plotted /\ call.label_color_map # None) =>
        SuppliedMapUsedForPoints /\ SuppliedMapUsedForLabels

\* C6 amended: the same, the point colours only when marker_color_array is None
\* (a marker_color_array replaces the colour of every point).
C6_SuppliedMapUsed ==
    (Plotted /\ call.label_color_map # None) =>
        /\ call.marker_color_array = None => SuppliedMapUsedForPoints
        /\ SuppliedMapUsedForLabels

C6_Witness ==
    /\ Plotted
    /\ call.label_color_map = Some(FullColorMap)
    /\ call.marker_color_array = None
    /\ call.color_label_arrows
    /\ Cardinality(ClusterLabels) = 2
    /\ call.noise_label \in ObservedLabels

\* The layers (in argument order) in which point i is not noise.
ClusterLayersOf(i) ==
    {k \in DOMAIN call.label_layers : call.label_layers[k][i] # call.noise_label}

\* The colour mapped to a label: the supplied one, or the generated one.
MappedColor(l) ==
    IF call.label_color_map # None THEN call.label_color_map[1][l]
    ELSE rendered[1].local_color_map[l]

PointColor(i) ==
    LET row == rendered[1].point_dataframe[i] IN <<row.r, row.g, row.b>>

FinestLayerWins(i) ==
    IF ClusterLayersOf(i) = {} THEN PointColor(i) = call.noise_color
    ELSE LET first == CHOOSE k \in ClusterLayersOf(i) :
                          \A j \in ClusterLayersOf(i) : k <= j
         IN  PointColor(i) = MappedColor(call.label_layers[first][i])

\* C7 as stated: with marker_color_array=None every point ends with the colour
\* of its label in the first layer (in argument order) where it is not noise,
\* and it ends with noise_color exactly when it is noise in every layer.
C7_FinestLayerWinsNoiseExactly ==
    (RenderedHtml /\ call.marker_color_array = None) =>
        \A i \in DOMAIN call.data_map_coords :
            /\ FinestLayerWins(i)
            /\ PointColor(i) = call.noise_color <=> ClusterLayersOf(i) = {}

\* C7 amended: every point ends with the colour of its label in the first layer
\* (in argument order) where it is not noise, and with noise_color when it is
\* noise in every layer.
C7_FinestLayerWins ==
    (RenderedHtml /\ call.marker_color_array = None) =>
        \A i \in DOMAIN call.data_map_coords : FinestLayerWins(i)

C7_Witness ==
    /\ RenderedHtml
    /\ call.marker_color_array = None
    /\ call.label_color_map = Some(FullColorMap)
    /\ call.label_layers = <<<<Unlabelled, LabelB>>, <<LabelAC, LabelAC>>>>
    /\ PointColor(1) = Blue
    /\ PointColor(2) = Red

\* C8: the text colours are the pastel variant of the label colours in dark
\* mode and the deep variant otherwise when color_label_text is True, and None
\* when it is False; the arrow colours are the label colours themselves when
\* color_label_arrows is True, and None otherwise.
C8_TextAndArrowColours ==
    Plotted =>
        LET r == rendered[1]
        IN  /\ r.label_text_colors =
                  IF ~call.color_label_text THEN None
                  ELSE IF call.darkmode THEN Some(pastel_palette(r.local_label_colors))
                  ELSE Some(deep_palette(r.local_label_colors))
            /\ r.label_arrow_colors =
                  IF call.color_label_arrows THEN Some(r.local_label_colors) ELSE None

C8_Witness ==
    /\ Plotted
    /\ call.color_label_text
    /\ call.darkmode
    /\ call.color_label_arrows
    /\ Len(rendered[1].local_label_colors) = 2
    /\ rendered[1].label_text_colors[1] # rendered[1].label_arrow_colors[1]

\* C9: a point_size or alpha among the extra keywords replaces the heuristic
\* value and is removed from the forwarded keywords, and every other extra
\* keyword is forwarded unchanged.
C9_OverridesPopped ==
    Plotted =>
        LET r == rendered[1]
            kwds == call.render_plot_kwds
        IN  /\ "point_size" \in DOMAIN kwds => r.point_size = kwds["point_size"]
            /\ "alpha" \in DOMAIN kwds => r.alpha = kwds["alpha"]
            /\ DOMAIN r.kwds = (DOMAIN kwds) \ {"point_size", "alpha"}
            /\ \A k \in DOMAIN r.kwds : r.kwds[k] = kwds[k]

C9_Witness ==
    /\ Plotted
    /\ DOMAIN call.render_plot_kwds = {"point_size", "alpha", "title_font_size"}
    /\ rendered[1].point_size = 5 * Fx
    /\ DOMAIN rendered[1].kwds = {"title_font_size"}

\* C10: called with no label layers create_interactive_plot returns None and
\* builds no label dataframe, generates no palette and does not call
\* render_html; called with at least one layer it calls render_html exactly
\* once and returns an InteractiveFigure wrapping that HTML.
C10_NoneOrInteractiveFigure ==
    Interacted =>
        IF Len(call.label_layers) = 0
        THEN /\ result = <<"None">>
             /\ built = <<>>
             /\ palette_calls = <<>>
             /\ rendered = <<>>
        ELSE /\ Len(rendered) = 1
             /\ result = <<"InteractiveFigure", <<"html_str", 1>>, call.width, call.height>>

====
